---- MODULE Spec2Model ----
(***************************************************************************)
(* A state-machine model of the static class SceneManager                  *)
(* (src/unnamed/part_000) and of its entry point (src/src/index.js).       *)
(*                                                                         *)
(* The class is a library of static methods: the model is open. index.js   *)
(* calls run(App) at load; after that the environment (scene code, the     *)
(* host) may call goto, push, pop, exit, stop, clearStack and              *)
(* requestUpdate in any order, and the host fires the frame callbacks that *)
(* requestUpdate scheduled.                                                *)
(* Every handler is one action; what it does is computed by operators on a *)
(* record of the manager's fields, written in the order of the source.     *)
(***************************************************************************)
EXTENDS Integers, Sequences, FiniteSets, TLC

\* --------------------------------------------------------------- bounds
\* Time is counted in units of 1/UnitsPerStep of a simulation step.
UnitsPerStep == 2
\* The host clock is sampled in a first window of MaxEarly + 1 instants and,
\* after a stall longer than the clamp, in a second one of MaxStall + 1.
MaxEarly == 5
MaxStall == 2
\* Frame callbacks that may be queued in the host at once.
MaxRaf == 1
\* Lifecycle events kept in the log.
MaxLife == 10
\* Entries the navigation stack may hold.
MaxStack == 2
\* Calls of Graphics.render that are followed.
MaxFrames == 6
\* The longest a draw may take, in ms.
MaxElapsed == 61

\* ------------------------------------------------------------ constants
Null == "null"
None == "none"
Factories == {"App", "MenuScene", "OptionsScene"}

\* _deltaTime = 1/60 s (one simulation step).
deltaTime == UnitsPerStep
\* The clamp of updateMain, 0.25 s = 15 steps of 1/60 s.
MaxFrameTime == 15 * UnitsPerStep

\* The timestamps performance.now() may return.
Instants ==
    (0..MaxEarly) \cup ((MaxEarly + MaxFrameTime)..(MaxEarly + MaxFrameTime + MaxStall))

\* The calls of one frame that may raise.
FailPoints == {None, "tickStart", "input", "terminate", "create", "render", "tickEnd"}
\* The calls of run that may raise: one of initialize before the error
\* handlers are installed, or the mount of goto.
RunFails == {None, "initialize", "mount"}
\* The calls of the failure report that may raise in turn.
ReportFails == {None, "printError", "stopAll"}

\* Graphics._maxSkip, set by Graphics.initialize.
maxSkip == 3
\* The arguments of Graphics.render: no stage, or a stage.
Stages == {Null, "stage"}

VARIABLES
    scene,          \* SceneManager._scene: the class of the current scene, or Null
    nextScene,      \* SceneManager._nextScene
    stack,          \* SceneManager._stack
    stopped,        \* SceneManager._stopped
    sceneStarted,   \* SceneManager._sceneStarted
    exiting,        \* SceneManager._exiting
    previousClass,  \* SceneManager._previousClass
    currentTime,    \* SceneManager._currentTime
    accumulator,    \* SceneManager._accumulator
    raf,            \* frame callbacks queued by requestAnimationFrame
    handlers,       \* the window error handler is installed
    ran,            \* run() has been called
    mobileSafari,   \* Utils.isMobileSafari()
    windowClosed,   \* window.close() has closed the window
    life,           \* log of the scenes' create, start, stop and terminate calls
    trace,          \* the calls made by the last handler, in order
    hist,           \* monitor: the operations so far, while they follow a scenario
    skipCount,      \* Graphics._skipCount
    rendered,       \* Graphics._rendered
    frameCount      \* Graphics.frameCount

vars == <<scene, nextScene, stack, stopped, sceneStarted, exiting, previousClass,
          currentTime, accumulator, raf, handlers, ran, mobileSafari,
          windowClosed, life, trace, hist, skipCount, rendered, frameCount>>

\* ------------------------------------------------------------- helpers
\* The manager's fields as one record. thrown is the pending exception;
\* failAt, isError, reportFail and closes are what the environment answers
\* in this handler: the call that raises, whether the value raised is an
\* Error, the call of the report that raises, whether the host honours
\* window.close().
Cur ==
    [scene |-> scene, nextScene |-> nextScene, stack |-> stack, stopped |-> stopped,
     sceneStarted |-> sceneStarted, exiting |-> exiting,
     previousClass |-> previousClass, currentTime |-> currentTime,
     accumulator |-> accumulator, raf |-> raf, handlers |-> handlers,
     windowClosed |-> windowClosed, life |-> life, trace |-> <<>>,
     thrown |-> None, isError |-> TRUE, failAt |-> None, reportFail |-> None,
     closes |-> FALSE,
     skipCount |-> skipCount, rendered |-> rendered, frameCount |-> frameCount]

Assign(m) ==
    /\ scene' = m.scene
    /\ nextScene' = m.nextScene
    /\ stack' = m.stack
    /\ stopped' = m.stopped
    /\ sceneStarted' = m.sceneStarted
    /\ exiting' = m.exiting
    /\ previousClass' = m.previousClass
    /\ currentTime' = m.currentTime
    /\ accumulator' = m.accumulator
    /\ raf' = m.raf
    /\ handlers' = m.handlers
    /\ windowClosed' = m.windowClosed
    /\ life' = m.life
    /\ trace' = m.trace
    /\ UNCHANGED mobileSafari

\* The handlers of the manager leave the fields of Graphics.render alone:
\* renderScene calls Graphics.render only for a started scene.
Apply(m) == Assign(m) /\ UNCHANGED <<skipCount, rendered, frameCount>>

Ev(m, e) == [m EXCEPT !.trace = Append(@, e)]

Life(m, e) == [m EXCEPT !.life = IF Len(@) < MaxLife THEN Append(@, e) ELSE @]

\* A call that may raise: if the environment makes it raise, the exception
\* is pending and nothing else of the call happens.
Raises(m, point) == m.failAt = point

Throw(m, point) == [m EXCEPT !.thrown = point, !.failAt = None]

\* ------------------------------------------------- failure reporting
\* SceneManager.stop
stop(m) == [m EXCEPT !.stopped = TRUE]

\* Graphics.printError(name, message): shows the overlay, unless it raises.
printError(m, name) ==
    IF m.thrown # None THEN m
    ELSE IF m.reportFail = "printError" THEN Throw(m, "printError")
    ELSE Ev(m, <<"printError", name>>)

\* AudioManager.stopAll()
stopAll(m) ==
    IF m.thrown # None THEN m
    ELSE IF m.reportFail = "stopAll" THEN Throw(m, "stopAll")
    ELSE Ev(m, <<"stopAll", Null>>)

\* SceneManager.catchException(e): e is the pending exception of m. There is
\* no try in it: a failure of printError or stopAll leaves it at once.
catchException(m) ==
    LET name == IF m.isError THEN m.thrown ELSE "UnknownError"
        m0 == [m EXCEPT !.thrown = None]
        m1 == printError(m0, name)
        m2 == stopAll(m1)
    IN IF m2.thrown # None THEN m2 ELSE Ev(stop(m2), <<"stop", Null>>)

\* SceneManager.onError(e): the window's error handler.
onError(m) ==
    LET m0 == Ev(stop([m EXCEPT !.thrown = None]), <<"stop", Null>>)
        m1 == printError(m0, "Error")
        m2 == stopAll(m1)
    IN [m2 EXCEPT !.thrown = None]

\* An exception that leaves a handler the host called: the window's error
\* event runs onError when setupErrorHandlers has installed it.
Uncaught(m) ==
    IF m.thrown = None THEN m
    ELSE LET m0 == Ev(m, <<"throw", m.thrown>>)
         IN IF m0.handlers THEN onError(m0) ELSE [m0 EXCEPT !.thrown = None]

\* An exception that leaves an operation called by scene code: the caller
\* either catches it or lets it reach the window.
Escapes(m, caught) ==
    IF m.thrown = None THEN m
    ELSE IF caught THEN [Ev(m, <<"throw", m.thrown>>) EXCEPT !.thrown = None]
    ELSE Uncaught(m)

\* --------------------------------------------------------- Graphics
\* Graphics.render(stage), index.js lines 159-174. elapsed is what the two
\* readings of Date.now() around the draw differ by. Graphics._renderer is
\* null (initialize, line 104; the call of _createRenderer in
\* _createAllElements is a comment, line 457), so _renderer.render(stage)
\* raises a TypeError whenever there is a stage to draw.
render(m, stage, elapsed) ==
    LET m0 == Ev(m, <<"Graphics.render", stage>>)
    IN IF m0.skipCount = 0
       THEN IF stage # Null THEN Throw(m0, "TypeError")
            ELSE Ev([m0 EXCEPT !.skipCount = IF elapsed \div 15 < maxSkip
                                             THEN elapsed \div 15 ELSE maxSkip,
                               !.rendered = TRUE,
                               !.frameCount = @ + 1],
                    <<"draw", elapsed>>)
       ELSE [m0 EXCEPT !.skipCount = @ - 1,
                       !.rendered = FALSE,
                       !.frameCount = @ + 1]

\* ------------------------------------------------------ the frame loop
\* SceneManager.requestUpdate
requestUpdate(m) ==
    IF m.thrown # None THEN m
    ELSE IF ~m.stopped
         THEN Ev([m EXCEPT !.raf = @ + 1], <<"requestAnimationFrame", Null>>)
         ELSE m

\* SceneManager.terminate: window.close()
terminate(m) ==
    Ev([m EXCEPT !.windowClosed = @ \/ m.closes], <<"close", Null>>)

\* SceneManager.tickStart
tickStart(m) ==
    IF m.thrown # None THEN m
    ELSE IF Raises(m, "tickStart") THEN Throw(m, "tickStart")
    ELSE Ev(m, <<"tickStart", Null>>)

\* SceneManager.tickEnd
tickEnd(m) ==
    IF m.thrown # None THEN m
    ELSE IF Raises(m, "tickEnd") THEN Throw(m, "tickEnd")
    ELSE Ev(m, <<"tickEnd", Null>>)

\* SceneManager.updateInputData: Input.update()
updateInputData(m) ==
    IF m.thrown # None THEN m
    ELSE IF Raises(m, "input") THEN Throw(m, "input")
    ELSE Ev(m, <<"input", Null>>)

\* SceneManager.isSceneChanging
isSceneChanging(m) == m.exiting \/ m.nextScene # Null

\* SceneManager.isCurrentSceneBusy: busy is what _scene.isBusy() answers.
isCurrentSceneBusy(m, busy) == m.scene # Null /\ busy

\* SceneManager.isCurrentSceneStarted
isCurrentSceneStarted(m) == m.scene # Null /\ m.sceneStarted

\* SceneManager.isNextScene
isNextScene(m, sceneClass) == m.nextScene # Null /\ m.nextScene = sceneClass

\* SceneManager.isPreviousScene
isPreviousScene(m, sceneClass) == m.previousClass = sceneClass

\* SceneManager.changeScene, lines 246-249: the outgoing scene.
changeSceneOut(m) ==
    IF m.scene = Null THEN m
    ELSE IF Raises(m, "terminate") THEN Throw(m, "terminate")
    ELSE [Life(Ev(m, <<"terminate", m.scene>>), <<"terminate", m.scene>>)
            EXCEPT !.previousClass = m.scene]

\* SceneManager.changeScene, lines 250-256: the incoming scene.
changeSceneIn(m) ==
    IF m.thrown # None THEN m
    ELSE LET m0 == [m EXCEPT !.scene = m.nextScene]
         IN IF m0.scene = Null THEN m0
            ELSE IF Raises(m0, "create") THEN Throw(m0, "create")
            ELSE Ev([Life(Ev(m0, <<"create", m0.scene>>), <<"create", m0.scene>>)
                       EXCEPT !.nextScene = Null, !.sceneStarted = FALSE],
                    <<"startLoading", Null>>)

\* SceneManager.changeScene, lines 257-259: the process teardown.
changeSceneExit(m) ==
    IF m.thrown # None THEN m
    ELSE IF m.exiting THEN terminate(m) ELSE m

\* SceneManager.changeScene
changeScene(m, busy) ==
    IF m.thrown # None THEN m
    ELSE LET m0 == Ev(m, <<"changeScene", Null>>)
         IN IF isSceneChanging(m0) /\ ~isCurrentSceneBusy(m0, busy)
            THEN changeSceneExit(changeSceneIn(changeSceneOut(
                     Ev(m0, <<"transition", m0.nextScene>>))))
            ELSE m0

\* SceneManager.updateScene: ready is what _scene.isReady() answers.
updateScene(m, ready) ==
    IF m.thrown # None \/ m.scene = Null THEN m
    ELSE LET m0 == IF ~m.sceneStarted /\ ready
                   THEN Ev([Life(Ev(m, <<"start", m.scene>>), <<"start", m.scene>>)
                              EXCEPT !.sceneStarted = TRUE], <<"endLoading", Null>>)
                   ELSE m
         IN IF isCurrentSceneStarted(m0)
            THEN Ev(m0, <<"update", m0.scene>>)
            ELSE m0

\* renderScene without the test of _scene before the loading hook.
renderSceneAlwaysLoading(m) ==
    IF m.thrown # None THEN m
    ELSE LET m0 == Ev(m, <<"renderScene", Null>>)
         IN IF isCurrentSceneStarted(m0)
            THEN IF Raises(m0, "render") THEN Throw(m0, "render")
                 ELSE Ev(m0, <<"render", m0.scene>>)
            ELSE IF Raises(m0, "render") THEN Throw(m0, "render")
                 ELSE Ev(m0, <<"updateLoading", m0.scene>>)

\* SceneManager.renderScene
renderScene(m) ==
    IF m.thrown # None THEN m
    ELSE LET m0 == Ev(m, <<"renderScene", Null>>)
         IN IF isCurrentSceneStarted(m0)
            THEN IF Raises(m0, "render") THEN Throw(m0, "render")
                 ELSE Ev(m0, <<"render", m0.scene>>)
            ELSE IF m0.scene # Null
            THEN IF Raises(m0, "render") THEN Throw(m0, "render")
                 ELSE Ev(m0, <<"updateLoading", m0.scene>>)
            ELSE m0

\* The while loop of updateMain with > for >=.
RECURSIVE drainStrict(_, _)
drainStrict(m, busy) ==
    IF m.thrown # None THEN m
    ELSE IF m.accumulator > deltaTime
    THEN LET m0 == changeScene(updateInputData(m), busy)
         IN IF m0.thrown # None THEN m0
            ELSE drainStrict([m0 EXCEPT !.accumulator = @ - deltaTime], busy)
    ELSE m

\* The while loop of updateMain with the transition check before the input
\* sample.
RECURSIVE drainCheckFirst(_, _)
drainCheckFirst(m, busy) ==
    IF m.thrown # None THEN m
    ELSE IF m.accumulator >= deltaTime
    THEN LET m0 == updateInputData(changeScene(m, busy))
         IN IF m0.thrown # None THEN m0
            ELSE drainCheckFirst([m0 EXCEPT !.accumulator = @ - deltaTime], busy)
    ELSE m

\* The while loop of updateMain, lines 229-234.
RECURSIVE drain(_, _)
drain(m, busy) ==
    IF m.thrown # None THEN m
    ELSE IF m.accumulator >= deltaTime
    THEN LET m0 == changeScene(updateInputData(m), busy)
         IN IF m0.thrown # None THEN m0
            ELSE drain([m0 EXCEPT !.accumulator = @ - deltaTime], busy)
    ELSE m

\* The elapsed time of updateMain with the clamp of line 226 left out.
fTimeNoClamp(newTime, m) == newTime - m.currentTime

\* The clamp of updateMain, lines 225-226; the division by 1000 is the
\* change of unit from the clock's to the accumulator's.
fTime(newTime, m) ==
    LET d == newTime - m.currentTime
    IN IF d > MaxFrameTime THEN MaxFrameTime ELSE d

\* updateMain with the render step before the ticks instead of after them.
updateMainRenderFirst(m, newTime, busy) ==
    IF m.thrown # None THEN m
    ELSE LET m0 == renderScene(m)
             m1 == IF mobileSafari
                   THEN changeScene(m0, busy)
                   ELSE drain([Ev(m0, <<"getTimeInMs", newTime>>)
                                 EXCEPT !.currentTime = newTime,
                                        !.accumulator = @ + fTime(newTime, m0)],
                              busy)
         IN requestUpdate(m1)

\* SceneManager.updateMain
updateMain(m, newTime, busy) ==
    IF m.thrown # None THEN m
    ELSE LET m0 == IF mobileSafari
                   THEN changeScene(m, busy)
                   ELSE drain([Ev(m, <<"getTimeInMs", newTime>>)
                                 EXCEPT !.currentTime = newTime,
                                        !.accumulator = @ + fTime(newTime, m)],
                              busy)
         IN requestUpdate(renderScene(m0))

\* SceneManager.update: the frame callback.
update(m, newTime, busy) ==
    LET m0 == tickStart(m)
        m1 == IF mobileSafari THEN updateInputData(m0) ELSE m0
        m2 == tickEnd(updateMain(m1, newTime, busy))
    IN IF m2.thrown # None THEN catchException(m2) ELSE m2

\* ----------------------------------------------------------- navigation
\* SceneManager.goto: the scene class is mounted at once; _nextScene is not
\* assigned (line 322 is a comment).
\* goto that records its target as the previous class.
gotoRecordsPrevious(m, sceneClass) ==
    IF m.thrown # None THEN m
    ELSE LET m0 == IF sceneClass # Null
                   THEN IF Raises(m, "mount") THEN Throw(m, "mount")
                        ELSE [Ev(m, <<"mount", sceneClass>>)
                                EXCEPT !.previousClass = sceneClass]
                   ELSE m
         IN IF m0.thrown # None THEN m0
            ELSE IF m0.scene # Null
            THEN Life(Ev(m0, <<"stop", m0.scene>>), <<"stop", m0.scene>>)
            ELSE m0

goto(m, sceneClass) ==
    IF m.thrown # None THEN m
    ELSE LET m0 == IF sceneClass # Null
                   THEN IF Raises(m, "mount") THEN Throw(m, "mount")
                        ELSE Ev(m, <<"mount", sceneClass>>)
                   ELSE m
         IN IF m0.thrown # None THEN m0
            ELSE IF m0.scene # Null
            THEN Life(Ev(m0, <<"stop", m0.scene>>), <<"stop", m0.scene>>)
            ELSE m0

\* push without the failure on a missing current scene: it records whatever
\* _scene holds and goes on.
pushUnchecked(m, sceneClass) ==
    goto([Ev(m, <<"push", sceneClass>>) EXCEPT !.stack = Append(@, m.scene)],
         sceneClass)

\* SceneManager.push: _scene.constructor raises a TypeError when _scene is
\* null, before anything is pushed.
push(m, sceneClass) ==
    LET m0 == Ev(m, <<"push", sceneClass>>)
    IN IF m0.scene = Null THEN Throw(m0, "TypeError")
       ELSE goto([m0 EXCEPT !.stack = Append(@, m0.scene)], sceneClass)

\* SceneManager.exit
exit(m) ==
    LET m0 == goto(m, Null)
    IN IF m0.thrown # None THEN m0 ELSE [m0 EXCEPT !.exiting = TRUE]

\* pop that does nothing on an empty stack.
popIgnoresEmpty(m) ==
    LET m0 == Ev(m, <<"pop", Null>>)
    IN IF Len(m0.stack) > 0
       THEN goto([m0 EXCEPT !.stack = SubSeq(@, 1, Len(@) - 1)],
                 m0.stack[Len(m0.stack)])
       ELSE m0

\* SceneManager.pop
pop(m) ==
    LET m0 == Ev(m, <<"pop", Null>>)
    IN IF Len(m0.stack) > 0
       THEN goto([m0 EXCEPT !.stack = SubSeq(@, 1, Len(@) - 1)],
                 m0.stack[Len(m0.stack)])
       ELSE exit(m0)

\* SceneManager.clearStack
clearStack(m) == [m EXCEPT !.stack = <<>>]

\* SceneManager.initialize: initGraphics and checkFileAccess may raise;
\* setupErrorHandlers comes last.
initialize(m) ==
    IF Raises(m, "initialize") THEN Throw(m, "initialize")
    ELSE Ev([m EXCEPT !.handlers = TRUE], <<"setupErrorHandlers", Null>>)

\* SceneManager.run: the call of requestUpdate is a comment (line 48).
run(m, sceneClass) ==
    LET m0 == goto(initialize(m), sceneClass)
    IN IF m0.thrown # None THEN catchException(m0) ELSE m0

\* ------------------------------------------------- scenario monitor
Off == <<<<"off", Null>>>>

Menu == "MenuScene"
Options == "OptionsScene"

\* The operation sequences the scenarios of the claims are made of; a tick
\* is a frame that ran at least one transition check and raised nothing.
Scenarios ==
    { <<<<"goto", Menu>>, <<"goto", Options>>, <<"tick", Null>>>>,
      <<<<"goto", Menu>>, <<"tick", Null>>, <<"push", Options>>, <<"pop", Null>>>>,
      <<<<"goto", Menu>>, <<"tick", Null>>, <<"push", Options>>, <<"tick", Null>>,
        <<"pop", Null>>, <<"tick", Null>>>>,
      <<<<"goto", Menu>>, <<"tick", Null>>, <<"tick", Null>>, <<"tick", Null>>,
        <<"tick", Null>>>> }

IsPrefix(p, s) == Len(p) <= Len(s) /\ SubSeq(s, 1, Len(p)) = p

Track(h, op) ==
    IF h # Off /\ \E s \in Scenarios : IsPrefix(Append(h, op), s)
    THEN Append(h, op)
    ELSE Off

Has(tr, kind) == \E i \in 1..Len(tr) : tr[i][1] = kind

\* The events of one kind in a trace, in order.
Only(tr, kind) == SelectSeq(tr, LAMBDA e : e[1] = kind)

\* ---------------------------------------------------------------- actions
Init ==
    /\ scene = Null
    /\ nextScene = Null
    /\ stack = <<>>
    /\ stopped = FALSE
    /\ sceneStarted = FALSE
    /\ exiting = FALSE
    /\ previousClass = Null
    /\ currentTime = 0
    /\ accumulator = 0
    /\ raf = 0
    /\ handlers = FALSE
    /\ ran = FALSE
    /\ mobileSafari \in BOOLEAN
    /\ windowClosed = FALSE
    /\ life = <<>>
    /\ trace = <<>>
    /\ hist = <<>>
    /\ skipCount = 0
    /\ rendered = FALSE
    /\ frameCount = 0

\* What the environment may answer once a call has been made to raise.
Reports(fail) == IF fail = None THEN {<<TRUE, None>>} ELSE BOOLEAN \X ReportFails

\* index.js line 12: SceneManager.run(App), once, at load.
Run ==
    /\ ~windowClosed /\ ~ran
    /\ \E fail \in RunFails : \E rp \in Reports(fail) :
       \E r \in {Uncaught(run([Cur EXCEPT !.failAt = fail, !.isError = rp[1],
                                           !.reportFail = rp[2]], "App"))} :
          Apply(r)
    /\ ran' = TRUE
    /\ UNCHANGED hist

Goto(sceneClass) ==
    /\ ran /\ ~windowClosed
    /\ \E fail \in {None, "mount"} : \E rp \in Reports(fail) :
       \E r \in {Escapes(goto([Cur EXCEPT !.failAt = fail, !.reportFail = rp[2]],
                              sceneClass), rp[1])} :
          /\ Apply(r)
          /\ hist' = IF fail = None THEN Track(hist, <<"goto", sceneClass>>) ELSE Off
    /\ UNCHANGED ran

Push(sceneClass) ==
    /\ ran /\ ~windowClosed
    /\ Len(stack) < MaxStack
    /\ \E fail \in (IF scene = Null THEN {None} ELSE {None, "mount"}) :
       \E rp \in Reports(IF scene = Null THEN "TypeError" ELSE fail) :
       \E r \in {Escapes(push([Cur EXCEPT !.failAt = fail, !.reportFail = rp[2]],
                              sceneClass), rp[1])} :
          Apply(r)
    /\ hist' = Track(hist, <<"push", sceneClass>>)
    /\ UNCHANGED ran

Pop ==
    /\ ran /\ ~windowClosed
    /\ \E fail \in {None, "mount"} : \E rp \in Reports(fail) :
       \E r \in {Escapes(pop([Cur EXCEPT !.failAt = fail, !.reportFail = rp[2]]),
                         rp[1])} :
          Apply(r)
    /\ hist' = Track(hist, <<"pop", Null>>)
    /\ UNCHANGED ran

Exit ==
    /\ ran /\ ~windowClosed
    /\ Apply(exit(Cur))
    /\ hist' = Off
    /\ UNCHANGED ran

Stop ==
    /\ ran /\ ~windowClosed
    /\ Apply(stop(Cur))
    /\ hist' = Off
    /\ UNCHANGED ran

ClearStack ==
    /\ ran /\ ~windowClosed
    /\ Apply(clearStack(Cur))
    /\ hist' = Off
    /\ UNCHANGED ran

\* A call of SceneManager.requestUpdate from outside the frame loop.
RequestUpdate ==
    /\ ran /\ ~windowClosed
    /\ raf < MaxRaf
    /\ Apply(requestUpdate(Cur))
    /\ UNCHANGED <<hist, ran>>

\* The calls of a frame the environment may make raise in the current state.
FrameFails ==
    IF scene = Null THEN {None, "tickStart", "input", "tickEnd"} ELSE FailPoints

\* The host fires a queued frame callback at time newTime.
Update ==
    /\ ran /\ ~windowClosed
    /\ raf > 0
    /\ \E newTime \in {t \in Instants : t >= currentTime} :
       \E busy \in (IF scene = Null THEN {FALSE} ELSE BOOLEAN) :
       \E closes \in (IF exiting THEN BOOLEAN ELSE {FALSE}) :
       \E fail \in FrameFails : \E rp \in Reports(fail) :
       \E r \in {Uncaught(update([Cur EXCEPT !.raf = @ - 1, !.failAt = fail,
                                             !.isError = rp[1],
                                             !.reportFail = rp[2],
                                             !.closes = closes],
                                 newTime, busy))} :
          /\ Apply(r)
          /\ hist' = IF Has(r.trace, "throw") \/ Has(r.trace, "printError")
                     THEN Off
                     ELSE IF Has(r.trace, "changeScene")
                     THEN Track(hist, <<"tick", Null>>)
                     ELSE hist
    /\ UNCHANGED ran

Next ==
    \/ Run
    \/ \E f \in Factories \cup {Null} : Goto(f)
    \/ \E f \in Factories : Push(f)
    \/ Pop
    \/ Exit
    \/ Stop
    \/ ClearStack
    \/ RequestUpdate
    \/ Update

Spec == Init /\ [][Next]_vars

\* Outside code calls Graphics.render(stage) once run has initialized
\* Graphics; the caller either catches what it raises or lets it reach the
\* window.
Render ==
    /\ ran /\ handlers /\ ~windowClosed
    /\ frameCount < MaxFrames
    /\ \E stage \in Stages :
       \E elapsed \in (IF skipCount = 0 /\ stage = Null THEN 0..MaxElapsed ELSE {0}) :
       \E rp \in Reports(IF skipCount = 0 /\ stage # Null THEN "TypeError" ELSE None) :
       \E r \in {Escapes(render([Cur EXCEPT !.reportFail = rp[2]], stage, elapsed),
                         rp[1])} :
          /\ Assign(r)
          /\ skipCount' = r.skipCount
          /\ rendered' = r.rendered
          /\ frameCount' = r.frameCount
    /\ UNCHANGED <<hist, ran>>

GraphicsNext ==
    \/ Run
    \/ Render

\* run(App) at load, then calls of Graphics.render.
GraphicsSpec == Init /\ [][GraphicsNext]_vars

\* ------------------------------------------------------------------ claims
GotoMenu == <<"goto", Menu>>
GotoOptions == <<"goto", Options>>
PushOptions == <<"push", Options>>
PopOp == <<"pop", Null>>
Tick == <<"tick", Null>>

\* C1: after goto(MenuScene) and goto(OptionsScene) with no transition check
\* in between, the frame that runs the next checks performs exactly one
\* transition, to OptionsScene, and MenuScene is never created.
C1_LastGotoWins ==
    hist = <<GotoMenu, GotoOptions, Tick>> =>
        /\ Only(trace, "transition") = << <<"transition", Options>> >>
        /\ scene = Options
        /\ life = << <<"create", Options>> >>

\* C2: a goto(factory) that raises nothing sets pending to factory, mounts
\* and creates nothing, and leaves current, started, the navigation stack and
\* the accumulator as they were.
C2_GotoOnlyArms ==
    [][\A f \in Factories \cup {Null} :
          (Goto(f) /\ ~Has(trace', "throw")) =>
              /\ nextScene' = f
              /\ ~Has(trace', "mount")
              /\ ~Has(trace', "create")
              /\ UNCHANGED <<scene, sceneStarted, stack, accumulator>>]_vars

\* C5: with MenuScene requested and a transition check run, push(OptionsScene)
\* followed at once by pop() arms MenuScene, the scene that was current
\* before the push, and leaves the navigation stack as it was before it.
C5_PushPopReturns ==
    hist = <<GotoMenu, Tick, PushOptions, PopOp>> =>
        /\ nextScene = Menu
        /\ stack = <<>>
        /\ ~exiting

\* C6: once exiting is true it stays true, pending stays null, and no step
\* mounts or creates a scene any more.
C6_ExitIsTerminal ==
    [][exiting =>
          /\ exiting'
          /\ nextScene' = Null
          /\ ~Has(trace', "mount")
          /\ ~Has(trace', "create")]_vars

\* C7: once a transition check has applied the exit transition (the call of
\* window.close), the loop is halted: the frame makes no further input
\* sample, transition check, render or requestAnimationFrame call, and no
\* frame callback is left queued.
C7_ExitHaltsLoop ==
    \A i \in 1..Len(trace) :
        trace[i][1] = "close" =>
            /\ raf = 0
            /\ \A j \in (i + 1)..Len(trace) :
                   trace[j][1] \notin {"input", "changeScene", "renderScene",
                                       "requestAnimationFrame"}

\* C8: goto(MenuScene), push(OptionsScene) and pop(), each followed by a
\* frame that runs a transition check, produce the lifecycle sequence
\* create, start, stop, terminate of MenuScene, the same of OptionsScene,
\* then create and start of MenuScene, and leave previousFactory at
\* OptionsScene.
C8_MenuOptionsMenu ==
    hist = <<GotoMenu, Tick, PushOptions, Tick, PopOp, Tick>> =>
        /\ life = << <<"create", Menu>>, <<"start", Menu>>, <<"stop", Menu>>,
                     <<"terminate", Menu>>, <<"create", Options>>,
                     <<"start", Options>>, <<"stop", Options>>,
                     <<"terminate", Options>>, <<"create", Menu>>,
                     <<"start", Menu>> >>
        /\ previousClass = Options

\* C9: of a scene that is not ready during its first three frames and ready
\* from the fourth, the render step of the first three frames takes the
\* loading path and start() has not fired, and start() fires in the fourth.
C9_StartOnFourthFrame ==
    /\ hist \in {<<GotoMenu, Tick>>, <<GotoMenu, Tick, Tick>>,
                 <<GotoMenu, Tick, Tick, Tick>>} =>
           /\ Has(trace, "updateLoading")
           /\ life = << <<"create", Menu>> >>
    /\ hist = <<GotoMenu, Tick, Tick, Tick, Tick>> =>
           /\ life = << <<"create", Menu>>, <<"start", Menu>> >>
           /\ sceneStarted

\* C10: in every frame whose drain loop has run to its end (the frame went on
\* to renderScene), the accumulator is below one step afterwards.
C10_AccumulatorBelowStep ==
    Has(trace, "renderScene") => accumulator < deltaTime

\* A frame that ran two ticks or more and left a remainder in the accumulator.
C10_Witness ==
    /\ Has(trace, "renderScene")
    /\ Len(Only(trace, "changeScene")) >= 2
    /\ accumulator > 0

\* The value performance.now() returned to the last frame.
Now(tr) == Only(tr, "getTimeInMs")[1][2]

\* The ticks the last frame ran to their end.
Ticks(tr) == Len(Only(tr, "changeScene"))

\* C11, as claimed: every frame that gets to updateMain (only a frame's trace
\* holds tickStart) reads the clock, sets lastTime to that reading and adds
\* min(now - lastTime, 0.25 s) to the accumulator.
C11_EveryFrameAddsClampedDelta ==
    [][Has(trace', "tickStart") =>
          /\ Has(trace', "getTimeInMs")
          /\ currentTime' = Now(trace')
          /\ accumulator' + Ticks(trace') * deltaTime - accumulator
                 = (IF Now(trace') - currentTime > MaxFrameTime
                    THEN MaxFrameTime ELSE Now(trace') - currentTime)]_vars

\* C11, amended: every frame that gets to the fixed-step branch of
\* updateMain (tickStart raised nothing, not Mobile Safari) sets lastTime to
\* the clock reading and adds min(now - lastTime, 0.25 s), never more than
\* 0.25 s, to the accumulator; on Mobile Safari the frame reads no clock and
\* changes neither.
C11_ClampedDelta ==
    [][Has(trace', "tickStart") =>
          IF mobileSafari
          THEN /\ ~Has(trace', "getTimeInMs")
               /\ UNCHANGED <<currentTime, accumulator>>
          ELSE /\ Has(trace', "getTimeInMs")
               /\ currentTime' = Now(trace')
               /\ accumulator' + Ticks(trace') * deltaTime - accumulator
                      <= MaxFrameTime
               /\ accumulator' + Ticks(trace') * deltaTime - accumulator
                      = (IF Now(trace') - currentTime > MaxFrameTime
                         THEN MaxFrameTime ELSE Now(trace') - currentTime)]_vars

\* A frame after a stall longer than 0.25 s: the clock is at its last instant
\* and the frame ran the 15 ticks of a clamped delta.
C11_Witness ==
    /\ Has(trace, "getTimeInMs")
    /\ currentTime = MaxEarly + MaxFrameTime + MaxStall
    /\ Ticks(trace) = 15

\* The positions of the calls of one kind in a handler's trace.
Idx(tr, kind) == {i \in 1..Len(tr) : tr[i][1] = kind}

\* C12: a frame that raises no failure (it got to the end of Graphics.tickEnd)
\* called renderScene exactly once, after every input sample and every
\* transition check of the frame, however many ticks the frame ran.
C12_OneRenderAfterTicks ==
    Has(trace, "tickEnd") =>
        /\ Cardinality(Idx(trace, "renderScene")) = 1
        /\ \A j \in Idx(trace, "renderScene") :
               \A i \in Idx(trace, "input") \cup Idx(trace, "changeScene") :
                   i < j

\* A frame without failure that ran several ticks and then rendered.
C12_Witness ==
    /\ Has(trace, "tickEnd")
    /\ Ticks(trace) >= 2
    /\ Len(Only(trace, "input")) = Ticks(trace)
    /\ Has(trace, "renderScene")

\* C14: a frame in which a step of the per-frame sequence raised (the frame
\* did not get to the end of Graphics.tickEnd) printed the error overlay,
\* stopped the audio and set stopped, and no exception left update.
C14_FrameFailureHalts ==
    [][(Update /\ ~Has(trace', "tickEnd")) =>
          /\ Has(trace', "printError")
          /\ Has(trace', "stopAll")
          /\ stopped'
          /\ ~Has(trace', "throw")]_vars

\* C15: once stopped is true (a failure was caught by update or by the
\* window's error handler, or stop() was called), no later step samples the
\* input, checks for a transition or renders, a frame callback queued before
\* stopped became true included.
C15_NoFrameAfterStop ==
    [][stopped => /\ ~Has(trace', "input")
                  /\ ~Has(trace', "changeScene")
                  /\ ~Has(trace', "renderScene")]_vars

\* C16: when run has completed with no failure in initialize or goto (the
\* error handlers are installed, the initial scene is mounted, nothing was
\* raised), the frame loop is running: a first frame callback is queued.
C16_RunStartsLoop ==
    (/\ Has(trace, "setupErrorHandlers")
     /\ Has(trace, "mount")
     /\ ~Has(trace, "throw")
     /\ ~Has(trace, "printError")) => raf > 0

\* C17: a run in which initialize or the initial goto raised (the initial
\* scene was not mounted) printed the error overlay, stopped the audio and
\* set stopped, let no exception out of run, and left no frame queued.
C17_RunFailureHalts ==
    [][(Run /\ ~Has(trace', "mount")) =>
          /\ Has(trace', "printError")
          /\ Has(trace', "stopAll")
          /\ stopped'
          /\ ~Has(trace', "throw")
          /\ raf' = 0]_vars

\* C18: push(factory) (the step whose trace starts with that call) with no
\* current scene raises an error and leaves the
\* navigation stack, pending and current as they were, with no goto (nothing
\* mounted); with a current scene it appends that scene's factory to the
\* stack and performs goto(factory).
C18_PushFailsFast ==
    [][\A f \in Factories :
          (Len(trace') > 0 /\ trace'[1] = <<"push", f>>) =>
             IF scene = Null
             THEN /\ Len(trace') > 1
                  /\ trace'[2] = <<"throw", "TypeError">>
                  /\ ~Has(trace', "mount")
                  /\ UNCHANGED <<stack, nextScene, scene>>
             ELSE /\ stack' = Append(stack, scene)
                  /\ \/ Only(trace', "mount") = << <<"mount", f>> >>
                     \/ Has(trace', "throw")]_vars

\* A push with no current scene has raised its TypeError.
C18_Witness ==
    /\ Len(trace) > 1
    /\ trace[1] = <<"push", Options>>
    /\ trace[2] = <<"throw", "TypeError">>
    /\ scene = Null
    /\ stack = <<>>

\* C19: pop() (the step whose trace holds that call) on an empty stack
\* performs exit(): nothing is mounted, exiting
\* becomes true and the stack stays empty; pop() on a non-empty stack that
\* raises nothing removes the last factory, leaves the rest in order, performs
\* goto to the removed factory and leaves exiting as it was.
C19_PopReturnsOrExits ==
    [][Has(trace', "pop") =>
          IF stack = <<>>
          THEN /\ exiting'
               /\ stack' = <<>>
               /\ ~Has(trace', "mount")
               /\ UNCHANGED <<nextScene, scene>>
          ELSE Has(trace', "throw") \/
               /\ stack' = SubSeq(stack, 1, Len(stack) - 1)
               /\ Only(trace', "mount") = << <<"mount", stack[Len(stack)]>> >>
               /\ exiting' = exiting]_vars

\* A pop on the empty stack has acted: the scenario's pop found nothing to
\* return to and set exiting.
C19_Witness ==
    /\ hist = <<GotoMenu, Tick, PushOptions, PopOp>>
    /\ trace = << <<"pop", Null>> >>
    /\ stack = <<>>
    /\ exiting

\* C22: the render step does one of three things. With a current scene that
\* has started it calls the normal render and not the loading hook (unless
\* the render raises); with a current scene that has not started it calls
\* the loading hook and not the normal render (unless the hook raises); with
\* no current scene it calls neither. Nothing after renderScene in a frame
\* changes the current scene or started, so the state after the frame tells
\* the case.
C22_RenderByState ==
    Has(trace, "renderScene") =>
        IF scene # Null /\ sceneStarted
        THEN /\ ~Has(trace, "updateLoading")
             /\ Has(trace, "render") \/ Has(trace, "printError") \/ Has(trace, "throw")
        ELSE IF scene # Null
        THEN /\ ~Has(trace, "render")
             /\ Has(trace, "updateLoading") \/ Has(trace, "printError")
                    \/ Has(trace, "throw")
        ELSE ~Has(trace, "render") /\ ~Has(trace, "updateLoading")

\* A frame has run its render step with no current scene.
C22_Witness ==
    /\ Has(trace, "renderScene")
    /\ Has(trace, "tickEnd")
    /\ scene = Null

\* C24: a step in which changeScene terminates a scene sets previousClass to
\* that scene's class, and every other step (goto, push, pop and exit
\* included) leaves previousClass as it was; while no scene has been
\* terminated, isPreviousScene(f) is false for every factory f.
C24_PreviousClass ==
    [][/\ IF Has(trace', "terminate")
          THEN previousClass' = Only(trace', "terminate")
                                    [Len(Only(trace', "terminate"))][2]
          ELSE previousClass' = previousClass
       /\ ~Has(life', "terminate") =>
              \A f \in Factories :
                  ~isPreviousScene([previousClass |-> previousClass'], f)]_vars

\* A pop on the empty stack has performed exit(), nothing has been
\* terminated and there is no previous class.
C24_Witness ==
    /\ Has(trace, "pop")
    /\ exiting
    /\ ~Has(life, "terminate")
    /\ previousClass = Null

\* The input samples and transition checks of a trace, in order.
Samples(tr) == SelectSeq(tr, LAMBDA e : e[1] \in {"input", "changeScene"})

\* C25: in every frame the input samples and the transition checks alternate,
\* sample first, so each tick is one sample followed by one check; a frame
\* that reaches its render step ran as many checks as samples; a transition
\* is applied only right after a check, so at most one per tick; on Mobile
\* Safari a frame runs at most one sample and one check, and exactly one of
\* each when it reaches its render step.
C25_SampleThenCheck ==
    /\ \A i \in 1..Len(Samples(trace)) :
           Samples(trace)[i][1] = (IF i % 2 = 1 THEN "input" ELSE "changeScene")
    /\ \A i \in Idx(trace, "transition") :
           i > 1 /\ trace[i - 1][1] = "changeScene"
    /\ Has(trace, "renderScene") =>
           Len(Only(trace, "input")) = Ticks(trace)
    /\ mobileSafari =>
           /\ Len(Only(trace, "input")) <= 1
           /\ Ticks(trace) <= 1
           /\ Has(trace, "renderScene") => Ticks(trace) = 1

\* A frame of several ticks in which every tick applied one transition (the
\* exit transition, exiting being true).
C25_Witness ==
    /\ Ticks(trace) >= 2
    /\ Len(Only(trace, "input")) = Ticks(trace)
    /\ Len(Only(trace, "transition")) = Ticks(trace)
    /\ Has(trace, "renderScene")

\* The failures of the report itself that left their handler.
ReportThrows(tr) == {i \in Idx(tr, "throw") : tr[i][2] \in ReportFails \ {None}}

\* C26: a failure of printError or stopAll raised while a first failure is
\* being reported leaves neither catchException nor onError, and the handler
\* that reported still sets stopped.
C26_SecondarySwallowed ==
    /\ ReportThrows(trace) = {}
    /\ (Has(trace, "printError") \/ Has(trace, "stopAll")) => stopped

\* C27: the process teardown (SceneManager.terminate, window.close) is
\* invoked at most once over a run; in particular the transition checks of
\* one frame invoke it at most once between them.
C27_TeardownOnce == Len(Only(trace, "close")) <= 1

\* C28: no frame runs more than 15 simulation ticks (MaxFrameTime is 15
\* steps and the leftover of the frame before is less than one step).
C28_AtMostFifteenTicks == Ticks(trace) <= MaxFrameTime \div deltaTime

\* The time the draw of a trace took.
Elapsed(tr) == Only(tr, "draw")[1][2]

\* C29: every call of Graphics.render adds exactly 1 to frameCount and leaves
\* the skip counter within 0..maxSkip; a call that drew (it found the counter
\* at 0) sets the counter to min(floor(e / 15), 3) for a draw of e ms and
\* leaves _rendered true; a call that did not draw takes 1 off the counter
\* and leaves _rendered false.
C29_SkipCounter ==
    [][Has(trace', "Graphics.render") =>
          /\ frameCount' = frameCount + 1
          /\ skipCount' \in 0..maxSkip
          /\ rendered' = (skipCount = 0)
          /\ IF skipCount = 0
             THEN /\ Has(trace', "draw")
                  /\ skipCount' = (IF Elapsed(trace') \div 15 < maxSkip
                                   THEN Elapsed(trace') \div 15 ELSE maxSkip)
             ELSE skipCount' = skipCount - 1]_vars

====
